---- MODULE Spec2Model ----
(***************************************************************************)
(* Model of the Stealth Page Resolver of douyin_download:                  *)
(* EnhancedDouyinDownloader.analyze_douyin_page and its URL classifier     *)
(* (src/backend/douyin_downloader.py).                                     *)
(*                                                                         *)
(* A URL is a Python str, modelled as a sequence of one-character strings, *)
(* so that the substring tests of the classifier and the splitting done by *)
(* urllib.parse.urlparse are computed as the code computes them.           *)
(***************************************************************************)
EXTENDS Integers, Sequences, FiniteSets, TLC

\* ------------------------------------------------------------------------
\* Bounds of the model (not program constants)
\* ------------------------------------------------------------------------
\* number of request events delivered to handle_navigation in one session
MaxRequests == 2
\* number of response events delivered to handle_response in one session
MaxResponses == 2
\* number of <video> elements query_selector_all can return
MaxElems == 2

\* ------------------------------------------------------------------------
\* Python str helpers
\* ------------------------------------------------------------------------
LowerLetters == <<"a","b","c","d","e","f","g","h","i","j","k","l","m","n","o","p","q","r","s","t","u","v","w","x","y","z">>
UpperLetters == <<"A","B","C","D","E","F","G","H","I","J","K","L","M","N","O","P","Q","R","S","T","U","V","W","X","Y","Z">>
Digits == <<"0","1","2","3","4","5","6","7","8","9">>

Range(s) == {s[i] : i \in DOMAIN s}

\* str.isalpha() on one ASCII character
IsAlpha(c) == c \in Range(LowerLetters) \cup Range(UpperLetters)

\* str.lower() on one character, then on a str
LowerChar(c) ==
    IF \E i \in DOMAIN UpperLetters : UpperLetters[i] = c
    THEN LowerLetters[CHOOSE i \in DOMAIN UpperLetters : UpperLetters[i] = c]
    ELSE c
Lower(s) == [i \in DOMAIN s |-> LowerChar(s[i])]

\* `t in s` for Python strs
Contains(s, t) == \E i \in 0..(Len(s) - Len(t)) : SubSeq(s, i + 1, i + Len(t)) = t

\* s.find(c): 1-based position of the first c, 0 when absent
Find(s, c) ==
    IF \E i \in DOMAIN s : s[i] = c
    THEN CHOOSE i \in DOMAIN s : s[i] = c /\ \A j \in 1..(i - 1) : s[j] # c
    ELSE 0

\* s.rfind(c): 1-based position of the last c, 0 when absent
RFind(s, c) ==
    IF \E i \in DOMAIN s : s[i] = c
    THEN CHOOSE i \in DOMAIN s : s[i] = c /\ \A j \in (i + 1)..Len(s) : s[j] # c
    ELSE 0

\* position of the first character of s at or after `from` that is in cs,
\* Len(s)+1 when there is none
FindAnyFrom(s, cs, from) ==
    IF \E i \in from..Len(s) : s[i] \in cs
    THEN CHOOSE i \in from..Len(s) : s[i] \in cs /\ \A j \in from..(i - 1) : s[j] \notin cs
    ELSE Len(s) + 1

\* ------------------------------------------------------------------------
\* urllib.parse.urlparse, as called by _normalize_url
\* ------------------------------------------------------------------------
scheme_chars == Range(LowerLetters) \cup Range(UpperLetters) \cup Range(Digits) \cup {"+", "-", "."}

\* urlsplit: the scheme is the text before the first ':' when that text is
\* non-empty, starts with a letter and consists of scheme characters
SplitScheme(url) ==
    LET i == Find(url, ":")
    IN  IF i > 1 /\ IsAlpha(url[1]) /\ \A k \in 1..(i - 1) : url[k] \in scheme_chars
        THEN [scheme |-> Lower(SubSeq(url, 1, i - 1)), rest |-> SubSeq(url, i + 1, Len(url))]
        ELSE [scheme |-> <<>>, rest |-> url]

\* urlsplit: a netloc is present only after a leading '//' and runs up to
\* the first of '/', '?', '#'
SplitNetloc(url) ==
    IF Len(url) >= 2 /\ SubSeq(url, 1, 2) = <<"/", "/">>
    THEN LET e == FindAnyFrom(url, {"/", "?", "#"}, 3)
         IN  [netloc |-> SubSeq(url, 3, e - 1), rest |-> SubSeq(url, e, Len(url))]
    ELSE [netloc |-> <<>>, rest |-> url]

\* urlsplit raises ValueError("Invalid IPv6 URL") on an unbalanced bracket
BadNetloc(netloc) ==
    \/ "[" \in Range(netloc) /\ "]" \notin Range(netloc)
    \/ "]" \in Range(netloc) /\ "[" \notin Range(netloc)

\* url.split(c, 1)[0]
Before(url, c) == IF Find(url, c) = 0 THEN url ELSE SubSeq(url, 1, Find(url, c) - 1)

\* _splitparams: the path loses the ';params' of its last segment
SplitParams(url) ==
    LET slash == RFind(url, "/")
        i == IF slash > 0
             THEN LET p == FindAnyFrom(url, {";"}, slash) IN IF p > Len(url) THEN 0 ELSE p
             ELSE Find(url, ";")
    IN  IF i = 0 THEN url ELSE SubSeq(url, 1, i - 1)

\* every scheme produced here ('' , 'http', 'https') is in uses_params
urlparse(url) ==
    LET s == SplitScheme(url)
        n == SplitNetloc(s.rest)
        p == Before(Before(n.rest, "#"), "?")
    IN  [raises |-> BadNetloc(n.netloc),
         scheme |-> s.scheme,
         netloc |-> n.netloc,
         path   |-> IF ";" \in Range(p) THEN SplitParams(p) ELSE p]

\* ------------------------------------------------------------------------
\* URL classifier
\* ------------------------------------------------------------------------
\* variant of _normalize_url that drops only the fragment
_normalize_url_keep_query(url) == Before(url, "#")

\* _normalize_url: f"{scheme}://{netloc}{path}", the input itself when
\* urlparse raises
_normalize_url(url) ==
    LET parsed == urlparse(url)
    IN  IF parsed.raises THEN url
        ELSE parsed.scheme \o <<":", "/", "/">> \o parsed.netloc \o parsed.path

skip_words == {
    <<"i","c","o","n">>,
    <<"l","o","g","o">>,
    <<"b","g">>,
    <<"b","a","c","k","g","r","o","u","n","d">>,
    <<"t","h","u","m","b">>,
    <<"p","r","e","v","i","e","w">>,
    <<"a","v","a","t","a","r">>,
    <<"c","o","v","e","r">>,
    <<"u","u","u","_","2","6","5">>,
    <<"d","o","u","y","i","n","_","p","c","_","c","l","i","e","n","t">>,
    <<"c","l","i","e","n","t">>,
    <<"d","o","w","n","l","o","a","d">>,
    <<"i","n","s","t","a","l","l">>,
    <<"s","e","t","u","p">>}

exclude_domains == {
    <<"d","o","u","y","i","n","s","t","a","t","i","c",".","c","o","m">>,
    <<"b","y","t","e","e","f","f","e","c","t","t","o","s",".","c","o","m">>,
    <<"e","f","f","e","c","t","c","d","n">>,
    <<"b","y","t","e","d","n","s","d","o","c",".","c","o","m">>,
    <<"e","d","e","n","-","c","n">>,
    <<"i","l","d","_","j","w">>}

video_exts == {
    <<".","m","p","4">>,
    <<".","m","3","u","8">>,
    <<".","f","l","v">>,
    <<".","w","e","b","m">>,
    <<".","m","o","v">>,
    <<".","a","v","i">>}

douyinvod_com == <<"d","o","u","y","i","n","v","o","d",".","c","o","m">>
video_word == <<"v","i","d","e","o">>

\* _is_douyinvod_url (the same test is written inline in handle_navigation)
_is_douyinvod_url(url) ==
    LET url_lower == Lower(url)
    IN  /\ url # <<>>
        /\ Contains(url_lower, douyinvod_com)
        /\ Contains(url_lower, video_word)

\* variant of _is_valid_video_url that accepts a douyinvod.com video URL before
\* it looks for skip words
_is_valid_video_url_vod_first(url) ==
    LET url_lower == Lower(url)
        has_skip_word == \E skip \in skip_words : Contains(url_lower, skip)
        is_douyin_vod == Contains(url_lower, douyinvod_com) /\ Contains(url_lower, video_word)
        has_video_ext == \E ext \in video_exts : Contains(url_lower, ext)
    IN  /\ url # <<>>
        /\ \/ is_douyin_vod
           \/ /\ ~ has_skip_word
              /\ ~ \E domain \in exclude_domains : Contains(url_lower, domain)
              /\ has_video_ext

\* _is_valid_video_url
_is_valid_video_url(url) ==
    LET url_lower == Lower(url)
        has_skip_word == \E skip \in skip_words : Contains(url_lower, skip)
        is_douyin_vod == Contains(url_lower, douyinvod_com) /\ Contains(url_lower, video_word)
        has_video_ext == \E ext \in video_exts : Contains(url_lower, ext)
    IN  /\ url # <<>>
        /\ ~ has_skip_word
        /\ \/ is_douyin_vod
           \/ /\ ~ \E domain \in exclude_domains : Contains(url_lower, domain)
              /\ has_video_ext

\* ------------------------------------------------------------------------
\* URLs a session can observe
\* ------------------------------------------------------------------------
\* https://v.douyinvod.com/video/a
HC1 == <<"h","t","t","p","s",":","/","/","v",".","d","o","u","y","i","n","v","o","d",".","c","o","m","/","v","i","d","e","o","/","a">>
\* https://v.douyinvod.com/video/b?k=1
HC2 == <<"h","t","t","p","s",":","/","/","v",".","d","o","u","y","i","n","v","o","d",".","c","o","m","/","v","i","d","e","o","/","b","?","k","=","1">>
\* https://c.e/clip1.mp4
LC1 == <<"h","t","t","p","s",":","/","/","c",".","e","/","c","l","i","p","1",".","m","p","4">>
\* https://c.e/clip1.mp4?sig=x
LC2 == <<"h","t","t","p","s",":","/","/","c",".","e","/","c","l","i","p","1",".","m","p","4","?","s","i","g","=","x">>
\* https://c.e/logo.png
DECOY == <<"h","t","t","p","s",":","/","/","c",".","e","/","l","o","g","o",".","p","n","g">>

\* https://v.douyinvod.com/video/bg
HCD == <<"h","t","t","p","s",":","/","/","v",".","d","o","u","y","i","n","v","o","d",".","c","o","m","/","v","i","d","e","o","/","b","g">>

\* URLs of the requests the page can issue
RequestUrls == {HC1, HC2, LC1, HCD}
\* URLs of the responses the page can receive
ResponseUrls == {HC1, LC1, LC2, DECOY}
\* https://v.douyinvod.com/x
DVX == <<"h","t","t","p","s",":","/","/","v",".","d","o","u","y","i","n","v","o","d",".","c","o","m","/","x">>
\* values the SCRIPT_FALLBACK evaluation can return besides null
ScriptUrls == {HC2, DVX}
\* lists the terminal static extraction can return
VideoDataChoices == {
    <<>>,
    <<[url |-> LC2, type |-> "html_element"]>>,
    <<[url |-> LC2, type |-> "html_element"], [url |-> HC1, type |-> "api_extraction"]>>,
    <<[url |-> DECOY, type |-> "api_extraction"], [url |-> LC1, type |-> "script_extraction"]>>}

\* Python None; the slot is only ever assigned non-empty strs, and the code
\* tests it by truthiness
None == <<>>

\* ------------------------------------------------------------------------
\* State of one analyze_douyin_page call
\* ------------------------------------------------------------------------
VARIABLES
    pc,                   \* the await the main flow is suspended at
    browser,              \* "not_launched", "open", "closed" (browser.close() ran)
    video_urls,           \* raw candidate set
    normalized_urls,      \* normalized candidate set
    first_douyinvod_url,  \* the high-confidence slot
    total_requests,
    total_responses,
    attempt,              \* wait loop: index of the round being slept
    video_elements,       \* click loop: len(video_elements)
    idx,                  \* click loop: index of the element being clicked
    step_failed,          \* history: a scroll step or a click raised
    video_data,           \* what the terminal static extraction returned
    result,               \* the list handed to the caller
    outcome,              \* "running", "returned", "raised"
    path,                 \* which code assembled result: "none", "normal", "except"
    nav_failed,           \* both page.goto calls raised
    respLog               \* history: response URLs in delivery order

\* State of one application of the URL classifier to one str
VARIABLES
    url_parts,            \* the pieces the input str is concatenated from
    cl_stage,             \* "idle", "input", "classified", "normalized", "renormalized"
    is_valid,             \* what _is_valid_video_url returned
    is_douyinvod,         \* what _is_douyinvod_url returned
    normalized_url,       \* what _normalize_url returned
    renormalized_url      \* what _normalize_url returned on its own output

\* State of one process_extract_text call
VARIABLES
    ex_pc,                \* the statement the call is at
    task_progress,        \* task_progress[task_id]
    temp_video_file,      \* the file at temp_video_path: "absent", "partial", "complete"
    success,
    text_file_path,
    output_files,         \* the output paths at which a file exists
    attempts,             \* history: the mechanisms called and what each did
    ex_outcome            \* "running", "returned", "raised"

\* State of the process_no_vocals requests of one server process
VARIABLES
    clock,                \* int(time.time())
    nv_active,            \* the request whose handler is running, or 0
    nv_pc,                \* per request: the statement its handler is at
    nv_temp,              \* per request: the time stamp in temp_filename, or -1
    nv_returned,          \* per request: the time stamp in the filename returned, or -1
    nv_files,             \* the files in DOWNLOADS_DIR, each with the request that wrote it
    nv_outcome            \* per request: "none", "returned", "raised"

\* the resolver session
session == <<pc, browser, video_urls, normalized_urls, first_douyinvod_url,
             total_requests, total_responses, attempt, video_elements, idx, step_failed,
             video_data, result, outcome, path, nav_failed, respLog>>

\* the classifier application
classifier == <<url_parts, cl_stage, is_valid, is_douyinvod, normalized_url, renormalized_url>>

\* the process_extract_text call
extract == <<ex_pc, task_progress, temp_video_file, success, text_file_path,
             output_files, attempts, ex_outcome>>

\* the process_no_vocals requests
novocals == <<clock, nv_active, nv_pc, nv_temp, nv_returned, nv_files, nv_outcome>>

\* what a step of the resolver session leaves alone
outside == <<classifier, extract, novocals>>

vars == <<session, classifier, extract, novocals>>

observer == <<video_urls, normalized_urls, first_douyinvod_url,
              total_requests, total_responses, respLog>>
interaction == <<attempt, video_elements, idx, step_failed>>
ending == <<video_data, result, outcome, path, nav_failed>>

max_wait_attempts == 12

\* no classifier application is under way
ClassifierIdle ==
    /\ url_parts = [scheme |-> <<>>, host |-> <<>>, path |-> <<>>, query |-> <<>>, fragment |-> <<>>]
    /\ cl_stage = "idle"
    /\ is_valid = FALSE
    /\ is_douyinvod = FALSE
    /\ normalized_url = <<>>
    /\ renormalized_url = <<>>

\* no process_extract_text call is under way
ExtractIdle ==
    /\ ex_pc = "idle"
    /\ task_progress = [status |-> "unset", progress |-> 0, result |-> "None"]
    /\ temp_video_file = "absent"
    /\ success = FALSE
    /\ text_file_path = None
    /\ output_files = {}
    /\ attempts = <<>>
    /\ ex_outcome = "running"

\* the two process_no_vocals requests the server receives
NoVocalsRequests == {1, 2}

\* no process_no_vocals request has been received
NoVocalsIdle ==
    /\ clock = 0
    /\ nv_active = 0
    /\ nv_pc = [r \in NoVocalsRequests |-> "idle"]
    /\ nv_temp = [r \in NoVocalsRequests |-> -1]
    /\ nv_returned = [r \in NoVocalsRequests |-> -1]
    /\ nv_files = {}
    /\ nv_outcome = [r \in NoVocalsRequests |-> "none"]

\* the state of a session before analyze_douyin_page starts
SessionIdle ==
    /\ pc = "launch"
    /\ browser = "not_launched"
    /\ video_urls = {}
    /\ normalized_urls = {}
    /\ first_douyinvod_url = None
    /\ total_requests = 0
    /\ total_responses = 0
    /\ attempt = 0
    /\ video_elements = 0
    /\ idx = 0
    /\ step_failed = FALSE
    /\ video_data = <<>>
    /\ result = <<>>
    /\ outcome = "running"
    /\ path = "none"
    /\ nav_failed = FALSE
    /\ respLog = <<>>

Init ==
    /\ SessionIdle
    /\ ClassifierIdle
    /\ ExtractIdle
    /\ NoVocalsIdle

\* ------------------------------------------------------------------------
\* Traffic Observer: the two listeners. Each runs to completion (no await
\* inside) at any await of the main flow once navigation has started.
\* ------------------------------------------------------------------------
Listening == pc \in {"goto_load", "goto_dcl", "settle", "probe", "wait", "scroll",
                     "click", "click_wait", "post_interact_sleep", "script_eval",
                     "final_eval", "closing"}

\* variant of handle_response that adds every response URL to the candidates
handle_response_unfiltered(url) ==
    /\ Listening
    /\ total_responses < MaxResponses
    /\ total_responses' = total_responses + 1
    /\ respLog' = Append(respLog, url)
    /\ video_urls' = video_urls \cup {url}
    /\ normalized_urls' = normalized_urls \cup {_normalize_url(url)}
    /\ UNCHANGED <<pc, browser, first_douyinvod_url, total_requests>>
    /\ UNCHANGED <<interaction, ending>>
    /\ UNCHANGED outside

handle_response(url) ==
    /\ Listening
    /\ total_responses < MaxResponses
    /\ total_responses' = total_responses + 1
    /\ respLog' = Append(respLog, url)
    /\ IF _is_valid_video_url(url)
       THEN /\ video_urls' = video_urls \cup {url}
            /\ normalized_urls' = normalized_urls \cup {_normalize_url(url)}
       ELSE UNCHANGED <<video_urls, normalized_urls>>
    /\ UNCHANGED <<pc, browser, first_douyinvod_url, total_requests>>
    /\ UNCHANGED <<interaction, ending>>
    /\ UNCHANGED outside

\* variant of handle_navigation that puts any request URL into an empty slot
handle_navigation_unfiltered(url) ==
    /\ Listening
    /\ total_requests < MaxRequests
    /\ total_requests' = total_requests + 1
    /\ IF first_douyinvod_url = None
       THEN first_douyinvod_url' = url
       ELSE UNCHANGED first_douyinvod_url
    /\ UNCHANGED <<pc, browser, video_urls, normalized_urls, total_responses, respLog>>
    /\ UNCHANGED <<interaction, ending>>
    /\ UNCHANGED outside

handle_navigation(url) ==
    /\ Listening
    /\ total_requests < MaxRequests
    /\ total_requests' = total_requests + 1
    /\ IF /\ LET url_lower == Lower(url)
             IN  Contains(url_lower, douyinvod_com) /\ Contains(url_lower, video_word)
          /\ first_douyinvod_url = None
       THEN first_douyinvod_url' = url
       ELSE UNCHANGED first_douyinvod_url
    /\ UNCHANGED <<pc, browser, video_urls, normalized_urls, total_responses, respLog>>
    /\ UNCHANGED <<interaction, ending>>
    /\ UNCHANGED outside

\* ------------------------------------------------------------------------
\* Result Assembler
\* ------------------------------------------------------------------------
\* _create_video_item (title and description are derived from index and type
\* and are not modelled)
_create_video_item(url, index, vtype) == [index |-> index, type |-> vtype, src |-> url]

\* the orders in which iterating the Python set S can yield its elements
\* (str hashes are randomized per process)
IterationOrders(S) == {o \in [1..Cardinality(S) -> S] : Range(o) = S}

\* the two merge loops of the normal path: cands is what remains to be
\* visited, acc the lists built so far
RECURSIVE MergeCandidates(_, _)
MergeCandidates(cands, acc) ==
    IF cands = <<>> THEN acc
    ELSE LET url == Head(cands).url
             normalized == _normalize_url(url)
             video_item == _create_video_item(url, Len(acc.videos) + 1, Head(cands).type)
         IN  IF url = <<>> \/ ~ _is_valid_video_url(url) \/ normalized \in acc.all_urls
             THEN MergeCandidates(Tail(cands), acc)
             ELSE MergeCandidates(Tail(cands),
                      [videos |-> Append(acc.videos, video_item),
                       all_urls |-> acc.all_urls \cup {normalized},
                       douyinvod_videos |->
                           IF _is_douyinvod_url(url)
                           THEN Append(acc.douyinvod_videos, video_item)
                           ELSE acc.douyinvod_videos])

\* variant of SelectMerged that returns the whole merged list
SelectMergedAll(videos, douyinvod_videos) == videos

\* the selection at the end of the normal path
SelectMerged(videos, douyinvod_videos) ==
    IF douyinvod_videos # <<>> THEN <<douyinvod_videos[1]>>
    ELSE IF videos # <<>> THEN <<videos[1]>>
    ELSE videos

\* variant of AssembleResult that merges without looking at the slot
AssembleResultNoSlot(slot, order, vdata) ==
    LET network == [i \in DOMAIN order |-> [url |-> order[i], type |-> "network_intercept"]]
        merged == MergeCandidates(network \o vdata,
                      [videos |-> <<>>, all_urls |-> {}, douyinvod_videos |-> <<>>])
    IN  IF merged.douyinvod_videos # <<>> THEN <<merged.douyinvod_videos[1]>>
        ELSE IF merged.videos # <<>> THEN <<merged.videos[1]>>
        ELSE <<>>

\* variant of AssembleResult that visits the static-extraction items before
\* the network candidates
AssembleResultStaticFirst(slot, order, vdata) ==
    IF slot # None
    THEN <<_create_video_item(slot, 1, "first_captured")>>
    ELSE LET network == [i \in DOMAIN order |-> [url |-> order[i], type |-> "network_intercept"]]
             merged == MergeCandidates(vdata \o network,
                           [videos |-> <<>>, all_urls |-> {}, douyinvod_videos |-> <<>>])
         IN  SelectMerged(merged.videos, merged.douyinvod_videos)

\* the list the normal path returns; order is the iteration order of video_urls
AssembleResult(slot, order, vdata) ==
    IF slot # None
    THEN <<_create_video_item(slot, 1, "first_captured")>>
    ELSE LET network == [i \in DOMAIN order |-> [url |-> order[i], type |-> "network_intercept"]]
             merged == MergeCandidates(network \o vdata,
                           [videos |-> <<>>, all_urls |-> {}, douyinvod_videos |-> <<>>])
         IN  SelectMerged(merged.videos, merged.douyinvod_videos)

\* variant of ExceptResult that does not prefer douyinvod.com candidates
ExceptResultNoPriority(slot, order) ==
    IF slot # None
    THEN <<_create_video_item(slot, 1, "first_captured")>>
    ELSE IF order # <<>>
    THEN <<_create_video_item(order[1], 1, "network_intercept")>>
    ELSE <<>>

\* the list the `except Exception` handler returns
ExceptResult(slot, order) ==
    LET douyinvod_urls == SelectSeq(order, _is_douyinvod_url)
    IN  IF slot # None
        THEN <<_create_video_item(slot, 1, "first_captured")>>
        ELSE IF douyinvod_urls # <<>>
        THEN <<_create_video_item(douyinvod_urls[1], 1, "network_intercept")>>
        ELSE IF order # <<>>
        THEN <<_create_video_item(order[1], 1, "network_intercept")>>
        ELSE <<>>

\* an exception reaches the handler of the guarded block: it assembles a
\* result from what the listeners captured, then the finally clause runs
OnException ==
    /\ \E order \in IterationOrders(video_urls) :
           result' = ExceptResult(first_douyinvod_url, order)
    /\ path' = "except"
    /\ pc' = "closing"

\* ------------------------------------------------------------------------
\* Main flow of analyze_douyin_page, one action per await
\* ------------------------------------------------------------------------
\* p.chromium.launch
Launch ==
    /\ pc = "launch"
    /\ \/ /\ browser' = "open"
          /\ pc' = "new_context"
          /\ UNCHANGED outcome
       \/ /\ pc' = "done"
          /\ outcome' = "raised"
          /\ UNCHANGED browser
    /\ UNCHANGED <<observer, interaction, video_data, result, path, nav_failed>>
    /\ UNCHANGED outside

\* an awaited call made between the launch and the guarded block: when it
\* raises, the exception leaves analyze_douyin_page at once
SetupStep(at, next) ==
    /\ pc = at
    /\ \/ /\ pc' = next
          /\ UNCHANGED outcome
       \/ /\ pc' = "done"
          /\ outcome' = "raised"
    /\ UNCHANGED <<browser, observer, interaction, video_data, result, path, nav_failed>>
    /\ UNCHANGED outside

\* browser.new_context
NewContext == SetupStep("new_context", "new_page")
\* context.new_page
NewPage == SetupStep("new_page", "add_init_script")
\* page.add_init_script, then page.on(...) twice and the entry of the try
AddInitScript == SetupStep("add_init_script", "pre_nav_sleep")

\* asyncio.sleep before the navigation
PreNavSleep ==
    /\ pc = "pre_nav_sleep"
    /\ pc' = "goto_load"
    /\ UNCHANGED <<browser, observer, interaction, ending>>
    /\ UNCHANGED outside

\* page.goto(wait_until="load"); on any exception the fallback goto is issued
GotoLoad ==
    /\ pc = "goto_load"
    /\ pc' \in {"settle", "goto_dcl"}
    /\ UNCHANGED <<browser, observer, interaction, ending>>
    /\ UNCHANGED outside

\* variant of GotoDcl whose exception is not handled: only the finally
\* clause runs and the exception reaches the caller
GotoDclUnguarded ==
    /\ pc = "goto_dcl"
    /\ \/ /\ pc' = "settle"
          /\ UNCHANGED <<browser, outcome, nav_failed>>
       \/ /\ nav_failed' = TRUE
          /\ browser' = "closed"
          /\ outcome' = "raised"
          /\ pc' = "done"
    /\ UNCHANGED <<observer, interaction, video_data, result, path>>
    /\ UNCHANGED outside

\* page.goto(wait_until="domcontentloaded"); its exception is not caught
\* locally
GotoDcl ==
    /\ pc = "goto_dcl"
    /\ \/ /\ pc' = "settle"
          /\ UNCHANGED <<result, path, nav_failed>>
       \/ /\ nav_failed' = TRUE
          /\ OnException
    /\ UNCHANGED <<browser, observer, interaction, video_data, outcome>>
    /\ UNCHANGED outside

\* asyncio.sleep after the navigation
Settle ==
    /\ pc = "settle"
    /\ pc' = "probe"
    /\ UNCHANGED <<browser, observer, interaction, ending>>
    /\ UNCHANGED outside

\* the title / video count / body text probes: each catches its own
\* exceptions and only logs; then the wait loop starts
Probe ==
    /\ pc = "probe"
    /\ pc' = "wait"
    /\ attempt' = 0
    /\ UNCHANGED <<browser, observer, video_elements, idx, step_failed, ending>>
    /\ UNCHANGED outside

\* where the flow goes when the wait loop is left
AfterWait == IF first_douyinvod_url # None THEN "final_eval" ELSE "scroll"

\* variant of WaitRound that tests only the slot
WaitRoundSlotOnly ==
    /\ pc = "wait"
    /\ IF \/ first_douyinvod_url # None
          \/ attempt + 1 = max_wait_attempts
       THEN /\ pc' = AfterWait
            /\ attempt' = 0
       ELSE /\ pc' = "wait"
            /\ attempt' = attempt + 1
    /\ UNCHANGED <<browser, observer, video_elements, idx, step_failed, ending>>
    /\ UNCHANGED outside

\* one round of the wait loop: the sleep, then the two break tests. The loop
\* variable is not read after the loop; it is cleared when the loop is left.
WaitRound ==
    /\ pc = "wait"
    /\ IF \/ first_douyinvod_url # None
          \/ \E url \in video_urls : _is_douyinvod_url(url)
          \/ attempt + 1 = max_wait_attempts
       THEN /\ pc' = AfterWait
            /\ attempt' = 0
       ELSE /\ pc' = "wait"
            /\ attempt' = attempt + 1
    /\ UNCHANGED <<browser, observer, video_elements, idx, step_failed, ending>>
    /\ UNCHANGED outside

\* the click loop is left; its variables are not read afterwards and are
\* cleared
LeaveClicks ==
    /\ pc' = "post_interact_sleep"
    /\ video_elements' = 0
    /\ idx' = 0

\* the scroll probes, the two scrolls with their dwells and
\* query_selector_all; an empty element list, or an exception in any of
\* them, skips the clicks
Scroll ==
    /\ pc = "scroll"
    /\ \/ \E n \in 1..MaxElems :
             /\ video_elements' = n
             /\ idx' = 0
             /\ pc' = "click"
             /\ UNCHANGED step_failed
       \/ /\ LeaveClicks
          /\ UNCHANGED step_failed
       \/ /\ LeaveClicks
          /\ step_failed' = TRUE
    /\ UNCHANGED <<browser, observer, attempt, ending>>
    /\ UNCHANGED outside

\* the for loop moves to the next element, or ends
NextElement ==
    IF idx + 1 < video_elements
    THEN /\ idx' = idx + 1
         /\ pc' = "click"
         /\ UNCHANGED video_elements
    ELSE LeaveClicks

\* variant of Click in which the exception of a click reaches the handler of
\* the guarded block
ClickFailureAborts ==
    /\ pc = "click"
    /\ \/ /\ pc' = "click_wait"
          /\ UNCHANGED <<video_elements, idx, step_failed, result, path>>
       \/ /\ OnException
          /\ step_failed' = TRUE
          /\ video_elements' = 0
          /\ idx' = 0
    /\ UNCHANGED <<browser, observer, attempt, video_data, outcome, nav_failed>>
    /\ UNCHANGED outside

\* video.click(); its exception is caught per element
Click ==
    /\ pc = "click"
    /\ \/ /\ pc' = "click_wait"
          /\ UNCHANGED <<video_elements, idx, step_failed>>
       \/ /\ NextElement
          /\ step_failed' = TRUE
    /\ UNCHANGED <<browser, observer, attempt, ending>>
    /\ UNCHANGED outside

\* the two sleeps after a click, then the break test on the slot
ClickWait ==
    /\ pc = "click_wait"
    /\ IF first_douyinvod_url # None
       THEN LeaveClicks
       ELSE NextElement
    /\ UNCHANGED <<browser, observer, attempt, step_failed, ending>>
    /\ UNCHANGED outside

\* asyncio.sleep after the interaction, then the test that guards the
\* in-page script evaluation
PostInteractSleep ==
    /\ pc = "post_interact_sleep"
    /\ pc' = IF first_douyinvod_url = None THEN "script_eval" ELSE "final_eval"
    /\ UNCHANGED <<browser, observer, interaction, ending>>
    /\ UNCHANGED outside

\* variant of ScriptWrite that takes any URL the evaluation returns
ScriptWriteUnchecked(js_video_url) ==
    IF js_video_url # None
    THEN first_douyinvod_url' = js_video_url
    ELSE UNCHANGED first_douyinvod_url

\* what the completion of the in-page script evaluation does to the slot
ScriptWrite(js_video_url) ==
    IF js_video_url # None /\ _is_douyinvod_url(js_video_url)
    THEN first_douyinvod_url' = js_video_url
    ELSE UNCHANGED first_douyinvod_url

\* page.evaluate of the script fallback returns a URL or null, or raises
ScriptEval ==
    /\ pc = "script_eval"
    /\ \/ \E js_video_url \in ScriptUrls \cup {None} : ScriptWrite(js_video_url)
       \/ UNCHANGED first_douyinvod_url
    /\ pc' = "final_eval"
    /\ UNCHANGED <<browser, video_urls, normalized_urls, total_requests, total_responses,
                   respLog, interaction, ending>>
    /\ UNCHANGED outside

\* page.evaluate of the terminal static extraction, then the assembly; an
\* exception of the evaluation reaches the handler of the guarded block
FinalEval ==
    /\ pc = "final_eval"
    /\ \/ /\ \E vdata \in VideoDataChoices, order \in IterationOrders(video_urls) :
                /\ video_data' = vdata
                /\ result' = AssembleResult(first_douyinvod_url, order, vdata)
          /\ path' = "normal"
          /\ pc' = "closing"
       \/ /\ OnException
          /\ UNCHANGED video_data
    /\ UNCHANGED <<browser, observer, interaction, outcome, nav_failed>>
    /\ UNCHANGED outside

\* finally: browser.close(), then the assembled list is returned
Close ==
    /\ pc = "closing"
    /\ browser' = "closed"
    /\ outcome' = "returned"
    /\ pc' = "done"
    /\ UNCHANGED <<observer, interaction, video_data, result, path, nav_failed>>
    /\ UNCHANGED outside

Next ==
    \/ Launch
    \/ NewContext
    \/ NewPage
    \/ AddInitScript
    \/ PreNavSleep
    \/ GotoLoad
    \/ GotoDcl
    \/ Settle
    \/ Probe
    \/ WaitRound
    \/ Scroll
    \/ Click
    \/ ClickWait
    \/ PostInteractSleep
    \/ ScriptEval
    \/ FinalEval
    \/ Close
    \/ \E url \in ResponseUrls : handle_response(url)
    \/ \E url \in RequestUrls : handle_navigation(url)

Spec == Init /\ [][Next]_vars

\* the steps of the main flow: each is the return or the failure of the call
\* the flow is suspended at
MainFlow ==
    \/ Launch
    \/ NewContext
    \/ NewPage
    \/ AddInitScript
    \/ PreNavSleep
    \/ GotoLoad
    \/ GotoDcl
    \/ Settle
    \/ Probe
    \/ WaitRound
    \/ Scroll
    \/ Click
    \/ ClickWait
    \/ PostInteractSleep
    \/ ScriptEval
    \/ FinalEval
    \/ Close

\* every call the flow is suspended at eventually returns or fails
LiveSpec == Init /\ [][Next]_vars /\ WF_vars(MainFlow)

\* ------------------------------------------------------------------------
\* The URL classifier applied to one str
\* ------------------------------------------------------------------------
\* number of path segments of an input str
MaxSegments == 2

SchemeParts == {<<>>, <<"h","t","t","p","s",":">>, <<"H","T","T","P",":">>}
HostParts == {<<>>, <<"/","/","c",".","e">>, <<"/","/","v",".","d","o","u","y","i","n","v","o","d",".","c","o","m">>, <<"/","/","V",".","D","o","u","y","i","n","V","o","d",".","C","O","M">>}
SegmentParts == {<<"/","v","i","d","e","o">>, <<"/","c","o","v","e","r",".","m","p","4">>, <<"/","a",".","m","p","4">>, <<"/","l","o","g","o","_","b","g",".","p","n","g">>, <<"f","o","o">>}
QueryParts == {<<>>, <<"?","x","=","1">>}
FragmentParts == {<<>>, <<"#","y">>}

RECURSIVE Concat(_)
Concat(seqs) == IF seqs = <<>> THEN <<>> ELSE Head(seqs) \o Concat(Tail(seqs))

\* the paths of at most MaxSegments segments
PathParts == {Concat(segs) : segs \in UNION {[1..n -> SegmentParts] : n \in 0..MaxSegments}}

\* the input str
InputUrl == url_parts.scheme \o url_parts.host \o url_parts.path \o url_parts.query \o url_parts.fragment

InitClassifier ==
    /\ SessionIdle
    /\ ExtractIdle
    /\ NoVocalsIdle
    /\ url_parts \in [scheme : SchemeParts, host : HostParts, path : PathParts,
                      query : QueryParts, fragment : FragmentParts]
    /\ cl_stage = "input"
    /\ is_valid = FALSE
    /\ is_douyinvod = FALSE
    /\ normalized_url = <<>>
    /\ renormalized_url = <<>>

\* _is_valid_video_url(url) and _is_douyinvod_url(url)
Classify ==
    /\ cl_stage = "input"
    /\ cl_stage' = "classified"
    /\ is_valid' = _is_valid_video_url(InputUrl)
    /\ is_douyinvod' = _is_douyinvod_url(InputUrl)
    /\ UNCHANGED <<url_parts, normalized_url, renormalized_url, session, extract, novocals>>

\* _normalize_url(url)
Normalize ==
    /\ cl_stage = "classified"
    /\ cl_stage' = "normalized"
    /\ normalized_url' = _normalize_url(InputUrl)
    /\ UNCHANGED <<url_parts, is_valid, is_douyinvod, renormalized_url, session, extract, novocals>>

\* _normalize_url(_normalize_url(url))
Renormalize ==
    /\ cl_stage = "normalized"
    /\ cl_stage' = "renormalized"
    /\ renormalized_url' = _normalize_url(normalized_url)
    /\ UNCHANGED <<url_parts, is_valid, is_douyinvod, normalized_url, session, extract, novocals>>

NextClassifier ==
    \/ Classify
    \/ Normalize
    \/ Renormalize

ClassifierSpec == InitClassifier /\ [][NextClassifier]_vars

\* ------------------------------------------------------------------------
\* One process_extract_text call (main.py). The handler has no await: its
\* steps are the blocking calls it makes, in program order.
\* ------------------------------------------------------------------------
subtitle_output == <<"_subtitle.txt">>
asr_output == <<"_asr.txt">>
ocr_output == <<"_ocr.txt">>

\* what a call of extract_embedded_subtitles can do: it returns True exactly
\* when the output file exists and is not empty
SubtitleOutcomes ==
    {[returned |-> "True", wrote |-> TRUE],
     [returned |-> "False", wrote |-> FALSE],
     [returned |-> "False", wrote |-> TRUE]}

\* what a call of extract_with_asr or extract_with_ocr can do: it returns
\* True after writing the output file, returns False before writing it, or
\* raises before or after writing it
ExtractorOutcomes ==
    {[returned |-> "True", wrote |-> TRUE],
     [returned |-> "False", wrote |-> FALSE],
     [returned |-> "raised", wrote |-> FALSE],
     [returned |-> "raised", wrote |-> TRUE]}

InitExtract ==
    /\ SessionIdle
    /\ ClassifierIdle
    /\ NoVocalsIdle
    /\ ex_pc = "init_task"
    /\ task_progress = [status |-> "unset", progress |-> 0, result |-> "None"]
    /\ temp_video_file = "absent"
    /\ success = FALSE
    /\ text_file_path = None
    /\ output_files = {}
    /\ attempts = <<>>
    /\ ex_outcome = "running"

\* variant of FinallyExtract that leaves the task entry as it is
FinallyExtractKeeps(entry) == entry

\* the finally clause: a task that is not completed is marked as failed
FinallyExtract(entry) ==
    IF entry.status # "completed" THEN [entry EXCEPT !.status = "error"] ELSE entry

\* an exception leaves process_extract_text through the except clauses and
\* the finally clause
RaiseExtract(entry) ==
    /\ task_progress' = FinallyExtract(entry)
    /\ ex_outcome' = "raised"
    /\ ex_pc' = "done"

\* task_progress[task_id] = {...}
InitTask ==
    /\ ex_pc = "init_task"
    /\ task_progress' = [status |-> "processing", progress |-> 0, result |-> "None"]
    /\ ex_pc' = "download"
    /\ UNCHANGED <<temp_video_file, success, text_file_path, output_files, attempts, ex_outcome>>
    /\ UNCHANGED <<session, classifier, novocals>>

\* download_video_to_local: it raises before the file is opened or while it
\* is being written, or completes
download_video_to_local ==
    /\ ex_pc = "download"
    /\ \/ /\ temp_video_file' = "complete"
          /\ ex_pc' = "check_dependencies"
          /\ UNCHANGED <<task_progress, ex_outcome>>
       \/ /\ temp_video_file' \in {"absent", "partial"}
          /\ RaiseExtract(task_progress)
    /\ UNCHANGED <<success, text_file_path, output_files, attempts>>
    /\ UNCHANGED <<session, classifier, novocals>>

\* extractor.check_dependencies(); False raises HTTPException
check_dependencies ==
    /\ ex_pc = "check_dependencies"
    /\ \/ /\ ex_pc' = "subtitle"
          /\ UNCHANGED <<task_progress, ex_outcome>>
       \/ RaiseExtract(task_progress)
    /\ UNCHANGED <<temp_video_file, success, text_file_path, output_files, attempts>>
    /\ UNCHANGED <<session, classifier, novocals>>

\* variant of NoTextYet that always asks for the next mechanism
NoTextYetAlways(succ, file_path) == TRUE

\* `not success or not text_file_path`
NoTextYet(succ, file_path) == ~ succ \/ file_path = None

\* one mechanism is tried: the progress update before the call, the call,
\* the test `success and output.exists()` and what it guards; an exception
\* of the call is caught and leaves success as it was
TryMechanism(mechanism, output, o) ==
    LET files == IF o.wrote THEN output_files \cup {output} ELSE output_files
        succ == IF o.returned = "raised" THEN success ELSE o.returned = "True"
        got == o.returned # "raised" /\ succ /\ output \in files
    IN  /\ output_files' = files
        /\ success' = succ
        /\ text_file_path' = IF got THEN output ELSE text_file_path
        /\ task_progress' = [task_progress EXCEPT !.progress = IF got THEN 100 ELSE 40]
        /\ attempts' = Append(attempts, [mechanism |-> mechanism,
                                         returned |-> o.returned,
                                         exists |-> output \in files])

\* extractor.extract_embedded_subtitles
extract_embedded_subtitles ==
    /\ ex_pc = "subtitle"
    /\ \E o \in SubtitleOutcomes : TryMechanism("subtitle", subtitle_output, o)
    /\ ex_pc' = IF NoTextYet(success', text_file_path') THEN "asr" ELSE "finish"
    /\ UNCHANGED <<temp_video_file, ex_outcome>>
    /\ UNCHANGED <<session, classifier, novocals>>

\* extractor.extract_with_asr(method='whisper')
extract_with_asr ==
    /\ ex_pc = "asr"
    /\ \E o \in ExtractorOutcomes : TryMechanism("asr", asr_output, o)
    /\ ex_pc' = IF NoTextYet(success', text_file_path') THEN "paddleocr" ELSE "finish"
    /\ UNCHANGED <<temp_video_file, ex_outcome>>
    /\ UNCHANGED <<session, classifier, novocals>>

\* extractor.extract_with_ocr(method='paddleocr'); EasyOCR is tried in the
\* handler of its exception
extract_with_ocr_paddleocr ==
    /\ ex_pc = "paddleocr"
    /\ \E o \in ExtractorOutcomes :
          /\ TryMechanism("paddleocr", ocr_output, o)
          /\ ex_pc' = IF o.returned = "raised" THEN "easyocr" ELSE "finish"
    /\ UNCHANGED <<temp_video_file, ex_outcome>>
    /\ UNCHANGED <<session, classifier, novocals>>

\* extractor.extract_with_ocr(method='easyocr')
extract_with_ocr_easyocr ==
    /\ ex_pc = "easyocr"
    /\ \E o \in ExtractorOutcomes : TryMechanism("easyocr", ocr_output, o)
    /\ ex_pc' = "finish"
    /\ UNCHANGED <<temp_video_file, ex_outcome>>
    /\ UNCHANGED <<session, classifier, novocals>>

\* the failure test after the mechanisms, the removal of the temporary
\* video, and the final update of the task entry
FinishExtract ==
    /\ ex_pc = "finish"
    /\ temp_video_file' = "absent"
    /\ IF ~ success \/ text_file_path = None \/ text_file_path \notin output_files
       THEN RaiseExtract([task_progress EXCEPT !.status = "error", !.progress = 0])
       ELSE /\ task_progress' = FinallyExtract([status |-> "completed", progress |-> 100,
                                                result |-> "file_path"])
            /\ ex_outcome' = "returned"
            /\ ex_pc' = "done"
    /\ UNCHANGED <<success, text_file_path, output_files, attempts>>
    /\ UNCHANGED <<session, classifier, novocals>>

NextExtract ==
    \/ InitTask
    \/ download_video_to_local
    \/ check_dependencies
    \/ extract_embedded_subtitles
    \/ extract_with_asr
    \/ extract_with_ocr_paddleocr
    \/ extract_with_ocr_easyocr
    \/ FinishExtract

ExtractSpec == InitExtract /\ [][NextExtract]_vars

\* ------------------------------------------------------------------------
\* process_no_vocals requests (main.py). The handler is a coroutine with no
\* await: once started it runs to its end before another request is served.
\* ------------------------------------------------------------------------
MaxClock == 1

\* what a call of remover.process_video can do: it catches every exception
\* and returns False; the output file is written by its last step
ProcessOutcomes ==
    {[returned |-> TRUE, wrote |-> TRUE],
     [returned |-> FALSE, wrote |-> FALSE],
     [returned |-> FALSE, wrote |-> TRUE]}

\* files is files after kind_<stamp> was written by request r
WriteFile(files, kind, stamp, r) ==
    {f \in files : ~ (f.kind = kind /\ f.stamp = stamp)}
        \cup {[kind |-> kind, stamp |-> stamp, owner |-> r]}

\* files after path.unlink() under `if path.exists()`
Unlink(files, kind, stamp) ==
    {f \in files : ~ (f.kind = kind /\ f.stamp = stamp)}

\* path.exists()
Exists(files, kind, stamp) ==
    \E f \in files : f.kind = kind /\ f.stamp = stamp

InitNoVocals ==
    /\ SessionIdle
    /\ ClassifierIdle
    /\ ExtractIdle
    /\ clock = 0
    /\ nv_active = 0
    /\ nv_pc = [r \in NoVocalsRequests |-> "pending"]
    /\ nv_temp = [r \in NoVocalsRequests |-> -1]
    /\ nv_returned = [r \in NoVocalsRequests |-> -1]
    /\ nv_files = {}
    /\ nv_outcome = [r \in NoVocalsRequests |-> "none"]

\* a second of wall-clock time passes
Tick ==
    /\ clock < MaxClock
    /\ clock' = clock + 1
    /\ UNCHANGED <<nv_active, nv_pc, nv_temp, nv_returned, nv_files, nv_outcome>>
    /\ UNCHANGED <<session, classifier, extract>>

\* the handler of request r starts: temp_filename = f"temp_{int(time.time())}.mp4"
StartNoVocals(r) ==
    /\ nv_active = 0
    /\ nv_pc[r] = "pending"
    /\ nv_active' = r
    /\ nv_temp' = [nv_temp EXCEPT ![r] = clock]
    /\ nv_pc' = [nv_pc EXCEPT ![r] = "download"]
    /\ UNCHANGED <<clock, nv_returned, nv_files, nv_outcome>>
    /\ UNCHANGED <<session, classifier, extract>>

\* the handler of request r ends by raising HTTPException
RaiseNoVocals(r) ==
    /\ nv_outcome' = [nv_outcome EXCEPT ![r] = "raised"]
    /\ nv_pc' = [nv_pc EXCEPT ![r] = "done"]
    /\ nv_active' = 0

\* download_video_to_local: it raises before the file is opened, or opens
\* the file and raises while writing it, or completes
DownloadNoVocals(r) ==
    /\ nv_active = r
    /\ nv_pc[r] = "download"
    /\ \/ /\ nv_files' = WriteFile(nv_files, "temp", nv_temp[r], r)
          /\ nv_pc' = [nv_pc EXCEPT ![r] = "process"]
          /\ UNCHANGED <<nv_active, nv_outcome>>
       \/ /\ nv_files' = WriteFile(nv_files, "temp", nv_temp[r], r)
          /\ RaiseNoVocals(r)
       \/ /\ UNCHANGED nv_files
          /\ RaiseNoVocals(r)
    /\ UNCHANGED <<clock, nv_temp, nv_returned>>
    /\ UNCHANGED <<session, classifier, extract>>

\* remover.process_video, the test of its outcome, the removal of the
\* temporary video and the return
ProcessNoVocals(r) ==
    /\ nv_active = r
    /\ nv_pc[r] = "process"
    /\ \E o \in ProcessOutcomes :
          LET processed == IF o.wrote
                           THEN WriteFile(nv_files, "no_vocals", nv_temp[r], r)
                           ELSE nv_files
          IN  /\ nv_files' = Unlink(processed, "temp", nv_temp[r])
              /\ IF ~ o.returned \/ ~ Exists(processed, "no_vocals", nv_temp[r])
                 THEN /\ RaiseNoVocals(r)
                      /\ UNCHANGED nv_returned
                 ELSE /\ nv_returned' = [nv_returned EXCEPT ![r] = nv_temp[r]]
                      /\ nv_outcome' = [nv_outcome EXCEPT ![r] = "returned"]
                      /\ nv_pc' = [nv_pc EXCEPT ![r] = "done"]
                      /\ nv_active' = 0
    /\ UNCHANGED <<clock, nv_temp>>
    /\ UNCHANGED <<session, classifier, extract>>

NextNoVocals ==
    \/ Tick
    \/ \E r \in NoVocalsRequests : StartNoVocals(r)
    \/ \E r \in NoVocalsRequests : DownloadNoVocals(r)
    \/ \E r \in NoVocalsRequests : ProcessNoVocals(r)

NoVocalsSpec == InitNoVocals /\ [][NextNoVocals]_vars

\* ------------------------------------------------------------------------
\* Properties
\* ------------------------------------------------------------------------
\* the step that assembles the result (either path) is the one entering the
\* finally clause
Assembling == pc # "closing" /\ pc' = "closing"

\* C1: on every exit path, when the slot is set at the moment the result is
\* assembled, the result is exactly one item with src = slot and type
\* first_captured, whatever the candidate set and the static extraction are.
C1_PriorityInvariant ==
    [][(Assembling /\ first_douyinvod_url # None)
        => result' = <<[index |-> 1, type |-> "first_captured", src |-> first_douyinvod_url]>>]_vars

\* a call that returned the slot although another candidate was captured
C1_Witness ==
    /\ pc = "done"
    /\ outcome = "returned"
    /\ result = <<[index |-> 1, type |-> "first_captured", src |-> first_douyinvod_url]>>
    /\ \E url \in video_urls : url # first_douyinvod_url

\* C2: once the slot holds a URL it never changes, under every interleaving
\* of the listeners with the main flow.
C2_SlotNeverOverwritten ==
    [][first_douyinvod_url # None => first_douyinvod_url' = first_douyinvod_url]_vars

\* C3: the returned list has at most one item on every exit path.
C3_AtMostOneItem == Len(result) <= 1

\* a normal-path call that merged two network candidates and static items
C3_Witness ==
    /\ pc = "done"
    /\ path = "normal"
    /\ Len(result) = 1
    /\ result[1].type = "network_intercept"
    /\ {HC1, LC1} \subseteq video_urls
    /\ video_data # <<>>

\* C4: the single returned item always has index 1.
C4_IndexIsOne == \A i \in DOMAIN result : result[i].index = 1

\* C5: once the browser has been launched, browser.close() has run when the
\* call is over, whatever the exit path.
C5_ClosedOnEveryExit == (pc = "done" /\ browser # "not_launched") => browser = "closed"

C7_BestEffortAfterNavFailure ==
    [][(pc = "goto_dcl" /\ nav_failed')
        => LET captured_hc == {url \in video_urls : _is_douyinvod_url(url)}
           IN  /\ pc' = "closing"
               /\ first_douyinvod_url # None
                    => result' = <<[index |-> 1, type |-> "first_captured",
                                    src |-> first_douyinvod_url]>>
               /\ (first_douyinvod_url = None /\ captured_hc # {})
                    => (Len(result') = 1 /\ result'[1].src \in captured_hc)
               /\ (first_douyinvod_url = None /\ captured_hc = {} /\ video_urls # {})
                    => (Len(result') = 1 /\ result'[1].src \in video_urls)
               /\ (result' = <<>>) <=> (first_douyinvod_url = None /\ video_urls = {})]_vars

\* a failed navigation that still returned a douyinvod.com URL captured from
\* a response next to a low-confidence one
C7_Witness ==
    /\ pc = "done"
    /\ nav_failed
    /\ outcome = "returned"
    /\ result = <<[index |-> 1, type |-> "network_intercept", src |-> HC1]>>
    /\ LC1 \in video_urls

\* the first response of the log that passed _is_valid_video_url
FirstValidResponse == Head(SelectSeq(respLog, _is_valid_video_url))

\* C8: when a call completes normally, no high-confidence URL was found
\* anywhere and the static extraction is empty, the returned src is the
\* valid response URL that was observed first.
C8_FirstObservedReturned ==
    (/\ pc = "done"
     /\ path = "normal"
     /\ first_douyinvod_url = None
     /\ \A url \in video_urls : ~ _is_douyinvod_url(url)
     /\ video_data = <<>>
     /\ Len(result) = 1)
        => result[1].src = FirstValidResponse

\* C9: every raw candidate has its normalized form in normalized_urls, and
\* two candidates that differ only in their query string share exactly one
\* normalized entry.
C9_DedupInvariant ==
    /\ \A url \in video_urls : _normalize_url(url) \in normalized_urls
    /\ \A u, v \in video_urls :
           Before(u, "?") = Before(v, "?")
               => Cardinality({n \in normalized_urls :
                                   n \in {_normalize_url(u), _normalize_url(v)}}) = 1

\* the same URL was observed with and without a query string
C9_Witness == {LC1, LC2} \subseteq video_urls /\ Cardinality(normalized_urls) = 1

\* C10: a response whose normalized URL is already in normalized_urls
\* changes neither video_urls nor normalized_urls.
C10_DuplicateResponseNoOp ==
    [][(/\ total_responses' = total_responses + 1
        /\ _normalize_url(respLog'[Len(respLog')]) \in normalized_urls)
        => (video_urls' = video_urls /\ normalized_urls' = normalized_urls)]_vars

\* the classifiers have been applied to the input str
Classified == cl_stage \in {"classified", "normalized", "renormalized"}

\* C11: every str that _is_douyinvod_url accepts is accepted by
\* _is_valid_video_url, decoy keyword or not.
C11_DouyinvodImpliesValid == Classified => (is_douyinvod => is_valid)

\* the lowercase form of the str contains a decoy marker
HasDecoyMarker(url) == \E skip \in skip_words : Contains(Lower(url), skip)

C13_NormalizeIdempotent ==
    /\ cl_stage = "renormalized" => renormalized_url = normalized_url
    /\ cl_stage \in {"normalized", "renormalized"}
         => /\ "?" \notin Range(normalized_url)
            /\ "#" \notin Range(normalized_url)
            /\ (url_parts.scheme # <<>> /\ url_parts.host # <<>>)
                 => normalized_url = Lower(url_parts.scheme) \o url_parts.host \o url_parts.path

\* C14: on an input with no scheme and no host (the empty str included)
\* _normalize_url returns the input unchanged.
C14_MalformedUnchanged ==
    (/\ cl_stage \in {"normalized", "renormalized"}
     /\ url_parts.scheme = <<>>
     /\ url_parts.host = <<>>)
        => normalized_url = InputUrl

\* positions of cands that survive the merge: the URL is valid and no valid
\* URL before it has the same normalized form
Kept(cands) ==
    {i \in DOMAIN cands :
        /\ _is_valid_video_url(cands[i].url)
        /\ \A j \in 1..(i - 1) :
              _is_valid_video_url(cands[j].url)
                  => _normalize_url(cands[j].url) # _normalize_url(cands[i].url)}

\* the least element of a non-empty set of positions
Least(S) == CHOOSE i \in S : \A j \in S : i <= j

\* C15: when the normal path assembles with the slot unset, the result is
\* chosen from the network candidates (tagged network_intercept, in the
\* iteration order of the set) followed by the static-extraction items, with
\* invalid URLs dropped and only the first occurrence of a normalized URL
\* kept: the first douyinvod.com item kept if there is one, else the first
\* item kept, else nothing. A URL that is both a network candidate and a
\* static-extraction item is returned tagged network_intercept.
C15_MergedSelection ==
    [][(pc = "final_eval" /\ path' = "normal" /\ first_douyinvod_url = None)
        => /\ \E order \in IterationOrders(video_urls) :
                LET cands == [i \in DOMAIN order |-> [url |-> order[i], type |-> "network_intercept"]]
                                 \o video_data'
                    kept == Kept(cands)
                    hc == {i \in kept : _is_douyinvod_url(cands[i].url)}
                IN  IF hc # {}
                    THEN /\ Len(result') = 1
                         /\ result'[1].src = cands[Least(hc)].url
                         /\ result'[1].type = cands[Least(hc)].type
                    ELSE IF kept # {}
                    THEN /\ Len(result') = 1
                         /\ result'[1].src = cands[Least(kept)].url
                         /\ result'[1].type = cands[Least(kept)].type
                    ELSE result' = <<>>
           /\ \A i \in DOMAIN result' :
                result'[i].src \in video_urls => result'[i].type = "network_intercept"]_vars

\* the normal path returned, with the slot unset, a URL that was both
\* intercepted and extracted statically
C15_Witness ==
    /\ pc = "closing"
    /\ path = "normal"
    /\ first_douyinvod_url = None
    /\ result # <<>>
    /\ result[1].src \in video_urls
    /\ \E i \in DOMAIN video_data : video_data[i].url = result[1].src
    /\ result[1].type = "network_intercept"

\* every response delivered so far fails _is_valid_video_url
OnlyDecoyResponses == \A i \in DOMAIN respLog : ~ _is_valid_video_url(respLog[i])

\* C16: as long as every response delivered fails _is_valid_video_url the
\* candidate sets are empty; if moreover the slot was never set and the
\* static extraction returned no valid URL, the session returns the empty
\* list. The delivery of an invalid response changes neither the candidate
\* sets nor the slot nor the assembled result, whatever requests came before.
C16_DecoysYieldNothing ==
    /\ [](OnlyDecoyResponses => (video_urls = {} /\ normalized_urls = {}))
    /\ []((/\ outcome = "returned"
           /\ OnlyDecoyResponses
           /\ first_douyinvod_url = None
           /\ \A i \in DOMAIN video_data : ~ _is_valid_video_url(video_data[i].url))
              => result = <<>>)
    /\ [][(/\ Len(respLog') = Len(respLog) + 1
           /\ ~ _is_valid_video_url(respLog'[Len(respLog')]))
              => UNCHANGED <<video_urls, normalized_urls, first_douyinvod_url, result>>]_vars

\* a session that saw decoy responses only, and no douyinvod.com request,
\* returned the empty list from the normal path
C16_Witness ==
    /\ outcome = "returned"
    /\ path = "normal"
    /\ respLog # <<>>
    /\ OnlyDecoyResponses
    /\ first_douyinvod_url = None
    /\ video_urls = {}
    /\ result = <<>>

\* a douyinvod.com URL has been captured: the slot is set, or a candidate is
\* a douyinvod.com URL
HighConfidenceCaptured ==
    \/ first_douyinvod_url # None
    \/ \E url \in video_urls : _is_douyinvod_url(url)

\* C18: when the wait loop is left with a douyinvod.com URL captured, in the
\* slot or among the candidates, the flow does not go on to the scroll and
\* the clicks.
C18_InteractionSkipped ==
    [][(pc = "wait" /\ pc' # "wait" /\ HighConfidenceCaptured) => pc' # "scroll"]_vars

\* C19: a click is issued on an element (the first one after the scroll, or
\* the next one after a click and its waits) only while the slot is unset.
C19_NoClickAfterSlotSet ==
    [][(pc' = "click" /\ (pc # "click" \/ idx' # idx)) => first_douyinvod_url = None]_vars

\* C20: the wait loop runs at most max_wait_attempts rounds. A round ends
\* the loop exactly when, after its sleep, the slot is set or a candidate is
\* a douyinvod.com URL, or when it is the last round; otherwise the next
\* round follows.
C20_WaitRounds ==
    /\ [](pc = "wait" => attempt \in 0..(max_wait_attempts - 1))
    /\ [][(pc = "wait" /\ (pc' # "wait" \/ attempt' # attempt))
            => /\ pc' # "wait" <=> (HighConfidenceCaptured \/ attempt + 1 = max_wait_attempts)
               /\ pc' = "wait" => attempt' = attempt + 1]_vars

\* the last round of the wait loop is under way with nothing captured
C20_Witness ==
    /\ pc = "wait"
    /\ attempt = max_wait_attempts - 1
    /\ ~ HighConfidenceCaptured

\* the attempt reported success and its output file existed
Produced(a) == a.returned = "True" /\ a.exists

\* the place of a mechanism in the fallback order; both OCR engines are the
\* on-screen OCR mechanism
FallbackRank(mechanism) ==
    CASE mechanism = "subtitle" -> 1
      [] mechanism = "asr" -> 2
      [] mechanism \in {"paddleocr", "easyocr"} -> 3

C21_StaticPassBeforeAssembly ==
    [][Assembling => pc = "final_eval"]_vars

C23_ScriptFallbackContinues ==
    [][(pc = "script_eval" /\ pc' # pc)
        => /\ pc' = "final_eval"
           /\ path' = "none"
           /\ outcome' = "running"
           /\ \/ first_douyinvod_url' = first_douyinvod_url
              \/ /\ first_douyinvod_url' \in ScriptUrls
                 /\ _is_douyinvod_url(first_douyinvod_url')]_vars

\* the script fallback wrote the slot: no request was ever delivered
C23_Witness ==
    /\ pc = "final_eval"
    /\ total_requests = 0
    /\ first_douyinvod_url \in ScriptUrls
    /\ _is_douyinvod_url(first_douyinvod_url)

\* C24: the slot changes only in a step of the request listener and the
\* candidate sets only in a step of the response listener.
C24_OnlyListenersWrite ==
    [][/\ first_douyinvod_url' # first_douyinvod_url => total_requests' = total_requests + 1
       /\ (video_urls' # video_urls \/ normalized_urls' # normalized_urls)
            => total_responses' = total_responses + 1]_vars

\* the place of a position of the main flow in the order of the stages
StageRank(p) ==
    CASE p \in {"launch", "new_context", "new_page", "add_init_script", "pre_nav_sleep"} -> 0
      [] p \in {"goto_load", "goto_dcl"} -> 1
      [] p \in {"settle", "probe", "wait"} -> 2
      [] p \in {"scroll", "click", "click_wait", "post_interact_sleep"} -> 3
      [] p = "script_eval" -> 4
      [] p = "final_eval" -> 5
      [] p = "closing" -> 6
      [] p = "done" -> 7

\* C25: the flow never goes back to an earlier stage, and when every call it
\* waits for returns or fails, every resolve call ends, returning or raising,
\* with no browser left open.
C25_ForwardAndTerminates ==
    /\ [][StageRank(pc') >= StageRank(pc)]_vars
    /\ <>[](pc = "done" /\ outcome \in {"returned", "raised"} /\ browser # "open")

\* C26: every item of a returned list has a src that passes
\* _is_valid_video_url.
C26_ReturnedUrlsValid ==
    outcome = "returned" => \A i \in DOMAIN result : _is_valid_video_url(result[i].src)

\* C27: the slot is unset or holds a URL that passes _is_douyinvod_url, and
\* every raw candidate passes _is_valid_video_url.
C27_SlotAndCandidatesClassified ==
    /\ first_douyinvod_url # None => _is_douyinvod_url(first_douyinvod_url)
    /\ \A url \in video_urls : _is_valid_video_url(url)

\* the slot is set and a candidate is held, and a response that does not
\* pass _is_valid_video_url was delivered and is not a candidate
C27_Witness ==
    /\ first_douyinvod_url # None
    /\ video_urls # {}
    /\ \E i \in DOMAIN respLog :
          ~ _is_valid_video_url(respLog[i]) /\ respLog[i] \notin video_urls

\* C28: once a process_extract_text call has ended, its task entry says
\* completed or error; it says completed exactly when the call returned, and
\* then progress is 100 and result is set.
C28_TaskStatusFinal ==
    ex_pc = "done"
        => /\ task_progress.status \in {"completed", "error"}
           /\ task_progress.status = "completed" <=> ex_outcome = "returned"
           /\ task_progress.status = "completed"
                => (task_progress.progress = 100 /\ task_progress.result # "None")

\* the call raised before any mechanism was tried (download or dependency
\* check), and the task entry says error
C28_Witness ==
    /\ ex_pc = "done"
    /\ ex_outcome = "raised"
    /\ attempts = <<>>
    /\ task_progress.status = "error"

\* C29: once a process_extract_text call has ended, the temporary video file
\* it downloaded to no longer exists.
C29_TempVideoRemoved ==
    ex_pc = "done" => temp_video_file = "absent"

\* C30: two process_no_vocals requests never share a temporary input path
\* or an output filename, and the file returned to a request is still there
\* as that request wrote it.
C30_NoVocalsPathsDistinct ==
    /\ \A r1, r2 \in NoVocalsRequests :
          (r1 # r2 /\ nv_temp[r1] # -1 /\ nv_temp[r2] # -1) => nv_temp[r1] # nv_temp[r2]
    /\ \A r \in NoVocalsRequests :
          nv_outcome[r] = "returned"
              => [kind |-> "no_vocals", stamp |-> nv_returned[r], owner |-> r] \in nv_files

====
